---- MODULE Spec2Model ----
(***************************************************************************)
(* GestureControl Desktop (src/desktop_control.py): the per-frame gesture  *)
(* interpreter GestureDesktopController and the frame loop of main().      *)
(*                                                                         *)
(* Units.  Times are integer milliseconds (0.45 s = 450).  Normalised      *)
(* image lengths (pinch distance, palm Y, fingertip x/y) are integer       *)
(* thousandths (0.045 = 45).  Screen positions are integer hundredths of   *)
(* a pixel.  Smoothing factors are integer hundredths (0.25 = 25).         *)
(*                                                                         *)
(* A landmark frame is represented by what process() derives from it: the  *)
(* result of _get_fingers, the thumb-tip/index-tip distance, the mean Y of *)
(* landmarks 0,5,9,13,17 and the index fingertip position.                 *)
(***************************************************************************)
EXTENDS Integers, Sequences, FiniteSets, TLC

VARIABLES
    ctrl,            \* the GestureDesktopController instance (its fields)
    SMOOTH_BASE,     \* ctrl.cfg.SMOOTH_BASE, the only Config value main() writes
    no_hand_frames,  \* main(): local counter of consecutive no-hand frames
    pc,              \* main(): position in the frame loop
    now,             \* the wall clock, last value read by time.time()
    buttonHeld,      \* OS: the left button is down (mouseDown without later mouseUp)
    out,             \* OS: the pyautogui calls made by the last step, in order
    last,            \* the last step: which operation ran and on what frame
    runs             \* history of the processed frames (see RunsAfter)

vars == <<ctrl, SMOOTH_BASE, no_hand_frames, pc, now, buttonHeld, out, last, runs>>

----------------------------------------------------------------------------
(* Program constants: class Config and the literals of process().          *)

SCREEN_W == 1920
SCREEN_H == 1080
PX == 100
UNIT == 1000
SMOOTH_BASE_INIT == 25
SMOOTH_FAST == 55
SMOOTH_STEP == 5
SMOOTH_MIN == 10
SMOOTH_MAX == 60
VELOCITY_THRESHOLD == 40
DEAD_ZONE == 3
MARGIN == 100
PINCH_CLOSE == 45
PINCH_OPEN == 65
CLICK_COOLDOWN == 350
DOUBLE_CLICK_WINDOW == 350
HOLD_LIMIT == 450
SCROLL_SENSITIVITY == 50
SCROLL_MIN_DELTA == 200
SCROLL_GAIN == 5
SCROLL_CLAMP == 15
SCROLL_WAIT == 3
CONFIRM_FRAMES == 2
FIST_CONFIRM == 3
HISTORY_MAXLEN == 8
HAND_LOST_AFTER == 3

----------------------------------------------------------------------------
(* Bounds of the model.                                                    *)

T0 == 1000             \* clock value when the session starts
MaxClicks == 3         \* total_clicks is followed up to this value
MaxScrolls == 3        \* total_scrolls is followed up to this value
MaxScrollFrames == 8   \* scroll_frames is followed up to this value
MaxGestureFrames == 12 \* gesture_frame_count is followed up to this value
MaxNoHand == 4         \* no_hand_frames is followed up to this value

----------------------------------------------------------------------------
(* Inputs.                                                                 *)

Fingers(t, i, m, r, p) ==
    [thumb |-> t, index |-> i, middle |-> m, ring |-> r, pinky |-> p]
FIST == Fingers(FALSE, FALSE, FALSE, FALSE, FALSE)
PALM == Fingers(TRUE, TRUE, TRUE, TRUE, TRUE)
POINT == Fingers(FALSE, TRUE, FALSE, FALSE, FALSE)
PEACE == Fingers(FALSE, TRUE, TRUE, FALSE, FALSE)
AllFingers == [thumb : BOOLEAN, index : BOOLEAN, middle : BOOLEAN,
               ring : BOOLEAN, pinky : BOOLEAN]

Tips == {<<500, 500>>}

PalmY0 == 500
Extended(f) ==
    (IF f.index THEN 1 ELSE 0) + (IF f.middle THEN 1 ELSE 0)
        + (IF f.ring THEN 1 ELSE 0) + (IF f.pinky THEN 1 ELSE 0)
\* all_curled with the thumb test the wrong way round
AllCurled_ThumbExtended(f) == Extended(f) = 0 /\ f.thumb
AllCurled(f) == Extended(f) = 0 /\ ~f.thumb
OpenPalm(f) == Extended(f) >= 4 /\ f.thumb
Pointing(f) == f.index /\ ~f.middle /\ ~f.ring /\ ~f.pinky
Peace(f) == f.index /\ f.middle /\ ~f.ring /\ ~f.pinky

\* the frames of an input alphabet; process() reads the palm Y only of an
\* open palm, so the other hands carry one value
Landmarks(hands, dists, palmys, tips) ==
    {lm \in [fingers : hands, pinch_dist : dists, palm_y : palmys, tip : tips] :
        OpenPalm(lm.fingers) \/ lm.palm_y = PalmY0}
NoFrame == [fingers |-> FIST, pinch_dist |-> 0, palm_y |-> 0, tip |-> <<0, 0>>]

----------------------------------------------------------------------------
(* Arithmetic helpers.                                                     *)

Abs(a) == IF a < 0 THEN -a ELSE a
Min(a, b) == IF a < b THEN a ELSE b
Max(a, b) == IF a > b THEN a ELSE b
\* Python int(): truncation toward zero of a / b, b > 0
TruncDiv(a, b) == IF a >= 0 THEN a \div b ELSE -((-a) \div b)

----------------------------------------------------------------------------
(* The OS input collaborator (pyautogui).                                  *)

Act(name) == [op |-> name, x |-> 0, y |-> 0]
ActMove(sx, sy) == [op |-> "moveTo", x |-> sx, y |-> sy]
ActScroll(amount) == [op |-> "scroll", x |-> amount, y |-> 0]

\* the left button after one call: click and doubleClick press and release it
ButtonAfterOne(held, a) ==
    CASE a.op = "mouseDown" -> TRUE
      [] a.op = "mouseUp" -> FALSE
      [] a.op \in {"click", "doubleClick"} -> FALSE
      [] OTHER -> held

RECURSIVE ButtonAfter(_, _)
ButtonAfter(held, acts) ==
    IF acts = <<>> THEN held
    ELSE ButtonAfter(ButtonAfterOne(held, Head(acts)), Tail(acts))

Ops(acts) == {acts[i].op : i \in 1..Len(acts)}
CountOp(acts, name) == Cardinality({i \in 1..Len(acts) : acts[i].op = name})

----------------------------------------------------------------------------
(* GestureDesktopController.__init__                                       *)

InitCtrl ==
    [ smooth_x |-> (SCREEN_W * PX) \div 2,
      smooth_y |-> (SCREEN_H * PX) \div 2,
      prev_target_x |-> (SCREEN_W * PX) \div 2,
      prev_target_y |-> (SCREEN_H * PX) \div 2,
      is_pinching |-> FALSE,
      pinch_start_time |-> 0,
      last_click_time |-> 0,
      last_right_click_time |-> 0,
      last_single_click_time |-> 0,
      is_scrolling |-> FALSE,
      scroll_origin_y |-> 0,
      last_scroll_y |-> 0,
      scroll_frames |-> 0,
      is_dragging |-> FALSE,
      gesture_history |-> <<>>,
      current_confirmed_gesture |-> "idle",
      gesture_frame_count |-> 0,
      gesture_text |-> "Idle",
      paused |-> FALSE,
      total_clicks |-> 0,
      total_scrolls |-> 0 ]

----------------------------------------------------------------------------
(* Cursor mapping and smoothing.                                           *)

\* _map_to_screen without the clamp of line 163
_map_to_screen_Unclamped(x, y) ==
    LET span == UNIT - 2 * MARGIN
    IN  << ((span - (x - MARGIN)) * SCREEN_W * PX) \div span,
           ((y - MARGIN) * SCREEN_H * PX) \div span >>

\* x, y in thousandths of the image; the result in hundredths of a pixel
_map_to_screen(x, y) ==
    LET span == UNIT - 2 * MARGIN
        sx == ((span - (x - MARGIN)) * SCREEN_W * PX) \div span
        sy == ((y - MARGIN) * SCREEN_H * PX) \div span
    IN  << Max(0, Min((SCREEN_W - 1) * PX, sx)),
           Max(0, Min((SCREEN_H - 1) * PX, sy)) >>

\* alpha is cfg.SMOOTH_BASE or cfg.SMOOTH_FAST; returns the controller and
\* the integer position handed to moveTo
_smooth_move(c, base, tx, ty) ==
    LET vx == Abs(tx - c.prev_target_x)
        vy == Abs(ty - c.prev_target_y)
        v == VELOCITY_THRESHOLD * PX
        \* sqrt(vx**2 + vy**2) > v, without leaving 32-bit integers
        fast == vx > v \/ vy > v \/ vx * vx + vy * vy > v * v
        alpha == IF fast THEN SMOOTH_FAST ELSE base
        new_x == c.smooth_x + TruncDiv((tx - c.smooth_x) * alpha, 100)
        new_y == c.smooth_y + TruncDiv((ty - c.smooth_y) * alpha, 100)
        dx == Abs(new_x - c.smooth_x)
        dy == Abs(new_y - c.smooth_y)
        c1 == [c EXCEPT !.prev_target_x = tx, !.prev_target_y = ty]
        c2 == IF dx < DEAD_ZONE * PX /\ dy < DEAD_ZONE * PX
              THEN c1
              ELSE [c1 EXCEPT !.smooth_x = new_x, !.smooth_y = new_y]
    IN  [c |-> c2, sx |-> TruncDiv(c2.smooth_x, PX), sy |-> TruncDiv(c2.smooth_y, PX)]

----------------------------------------------------------------------------
(* Gesture confirmation.                                                   *)

\* collections.deque(maxlen=8).append
DequeAppend(h, g) ==
    IF Len(h) < HISTORY_MAXLEN THEN Append(h, g) ELSE Append(Tail(h), g)

\* list(h)[-n:]
LastN(h, n) == IF Len(h) <= n THEN h ELSE SubSeq(h, Len(h) - n + 1, Len(h))

Needed(gesture) == IF gesture = "fist" THEN FIST_CONFIRM ELSE CONFIRM_FRAMES

\* _confirm_gesture with the window one frame short
_confirm_gesture_OneShort(c, gesture) ==
    LET h == DequeAppend(c.gesture_history, gesture)
        c1 == [c EXCEPT !.gesture_history = h]
        needed == Needed(gesture)
        recent == LastN(h, needed - 1)
    IN  IF gesture = c.current_confirmed_gesture
        THEN [c |-> [c1 EXCEPT !.gesture_frame_count = @ + 1], ok |-> TRUE]
        ELSE IF Len(recent) >= needed - 1
                  /\ \A i \in 1..Len(recent) : recent[i] = gesture
             THEN [c |-> [c1 EXCEPT !.current_confirmed_gesture = gesture,
                                    !.gesture_frame_count = needed],
                   ok |-> TRUE]
             ELSE [c |-> c1, ok |-> FALSE]

\* _confirm_gesture confirming a new label the first time it is given
_confirm_gesture_Immediate(c, gesture) ==
    LET h == DequeAppend(c.gesture_history, gesture)
        c1 == [c EXCEPT !.gesture_history = h]
        needed == Needed(gesture)
    IN  IF gesture = c.current_confirmed_gesture
        THEN [c |-> [c1 EXCEPT !.gesture_frame_count = @ + 1], ok |-> TRUE]
        ELSE [c |-> [c1 EXCEPT !.current_confirmed_gesture = gesture,
                               !.gesture_frame_count = needed],
              ok |-> TRUE]

\* returns the controller and the boolean result
_confirm_gesture(c, gesture) ==
    LET h == DequeAppend(c.gesture_history, gesture)
        c1 == [c EXCEPT !.gesture_history = h]
        needed == Needed(gesture)
        recent == LastN(h, needed)
    IN  IF gesture = c.current_confirmed_gesture
        THEN [c |-> [c1 EXCEPT !.gesture_frame_count = @ + 1], ok |-> TRUE]
        ELSE IF Len(recent) >= needed
                  /\ \A i \in 1..Len(recent) : recent[i] = gesture
             THEN [c |-> [c1 EXCEPT !.current_confirmed_gesture = gesture,
                                    !.gesture_frame_count = needed],
                   ok |-> TRUE]
             ELSE [c |-> c1, ok |-> FALSE]

----------------------------------------------------------------------------
(* process(): the blocks of the per-frame decision, in source order.  Each *)
(* block returns the controller, the OS calls it made and whether it       *)
(* returned from process().                                                *)

Blk(c, acts, ret) == [c |-> c, out |-> acts, ret |-> ret]

\* ClickFamily with the double-click window test inverted
ClickFamily_WindowInverted(c, peace, t) ==
    LET c1 == [c EXCEPT !.last_click_time = t]
    IN  IF c1.is_dragging
        THEN Blk([c1 EXCEPT !.is_dragging = FALSE, !.gesture_text = "Released"],
                 <<Act("mouseUp")>>, TRUE)
        ELSE IF peace
        THEN IF t - c1.last_right_click_time > CLICK_COOLDOWN
             THEN Blk([c1 EXCEPT !.last_right_click_time = t,
                                 !.gesture_text = "Right Click!",
                                 !.total_clicks = @ + 1],
                      <<Act("rightClick")>>, TRUE)
             ELSE Blk(c1, <<>>, FALSE)
        ELSE IF t - c1.last_single_click_time > DOUBLE_CLICK_WINDOW
             THEN Blk([c1 EXCEPT !.gesture_text = "Double Click!",
                                 !.last_single_click_time = 0,
                                 !.total_clicks = @ + 1],
                      <<Act("doubleClick")>>, TRUE)
             ELSE Blk([c1 EXCEPT !.gesture_text = "Click!",
                                 !.last_single_click_time = t,
                                 !.total_clicks = @ + 1],
                      <<Act("click")>>, TRUE)

\* the click-family choice of a qualifying pinch release
\* ClickFamily testing the right-click cooldown against last_click_time,
\* which the release has just stamped
ClickFamily_RightCooldownStamped(c, peace, t) ==
    LET c1 == [c EXCEPT !.last_click_time = t]
    IN  IF c1.is_dragging
        THEN Blk([c1 EXCEPT !.is_dragging = FALSE, !.gesture_text = "Released"],
                 <<Act("mouseUp")>>, TRUE)
        ELSE IF peace
        THEN IF t - c1.last_click_time > CLICK_COOLDOWN
             THEN Blk([c1 EXCEPT !.last_right_click_time = t,
                                 !.gesture_text = "Right Click!",
                                 !.total_clicks = @ + 1],
                      <<Act("rightClick")>>, TRUE)
             ELSE Blk(c1, <<>>, FALSE)
        ELSE IF t - c1.last_single_click_time < DOUBLE_CLICK_WINDOW
             THEN Blk([c1 EXCEPT !.gesture_text = "Double Click!",
                                 !.last_single_click_time = 0,
                                 !.total_clicks = @ + 1],
                      <<Act("doubleClick")>>, TRUE)
             ELSE Blk([c1 EXCEPT !.gesture_text = "Click!",
                                 !.last_single_click_time = t,
                                 !.total_clicks = @ + 1],
                      <<Act("click")>>, TRUE)

ClickFamily(c, peace, t) ==
    LET c1 == [c EXCEPT !.last_click_time = t]
    IN  IF c1.is_dragging
        THEN Blk([c1 EXCEPT !.is_dragging = FALSE, !.gesture_text = "Released"],
                 <<Act("mouseUp")>>, TRUE)
        ELSE IF peace
        THEN IF t - c1.last_right_click_time > CLICK_COOLDOWN
             THEN Blk([c1 EXCEPT !.last_right_click_time = t,
                                 !.gesture_text = "Right Click!",
                                 !.total_clicks = @ + 1],
                      <<Act("rightClick")>>, TRUE)
             ELSE Blk(c1, <<>>, FALSE)
        ELSE IF t - c1.last_single_click_time < DOUBLE_CLICK_WINDOW
             THEN Blk([c1 EXCEPT !.gesture_text = "Double Click!",
                                 !.last_single_click_time = 0,
                                 !.total_clicks = @ + 1],
                      <<Act("doubleClick")>>, TRUE)
             ELSE Blk([c1 EXCEPT !.gesture_text = "Click!",
                                 !.last_single_click_time = t,
                                 !.total_clicks = @ + 1],
                      <<Act("click")>>, TRUE)

\* PinchBlock with one threshold: the pinch opens above PINCH_CLOSE
PinchBlock_NoHysteresis(c, peace, pinch_dist, t) ==
    IF ~c.is_pinching /\ pinch_dist < PINCH_CLOSE
    THEN Blk([c EXCEPT !.is_pinching = TRUE, !.pinch_start_time = t], <<>>, FALSE)
    ELSE IF c.is_pinching /\ pinch_dist > PINCH_CLOSE
    THEN LET c1 == [c EXCEPT !.is_pinching = FALSE]
             hold == t - c.pinch_start_time
         IN  IF hold < HOLD_LIMIT /\ t - c1.last_click_time > CLICK_COOLDOWN
             THEN ClickFamily(c1, peace, t)
             ELSE Blk(c1, <<>>, FALSE)
    ELSE Blk(c, <<>>, FALSE)

\* PinchBlock without the hold limit: every release is a click candidate
PinchBlock_NoHoldLimit(c, peace, pinch_dist, t) ==
    IF ~c.is_pinching /\ pinch_dist < PINCH_CLOSE
    THEN Blk([c EXCEPT !.is_pinching = TRUE, !.pinch_start_time = t], <<>>, FALSE)
    ELSE IF c.is_pinching /\ pinch_dist > PINCH_OPEN
    THEN LET c1 == [c EXCEPT !.is_pinching = FALSE]
         IN  IF t - c1.last_click_time > CLICK_COOLDOWN
             THEN ClickFamily(c1, peace, t)
             ELSE Blk(c1, <<>>, FALSE)
    ELSE Blk(c, <<>>, FALSE)

\* PinchBlock letting a release through when exactly CLICK_COOLDOWN has
\* passed since the last click
PinchBlock_CooldownInclusive(c, peace, pinch_dist, t) ==
    IF ~c.is_pinching /\ pinch_dist < PINCH_CLOSE
    THEN Blk([c EXCEPT !.is_pinching = TRUE, !.pinch_start_time = t], <<>>, FALSE)
    ELSE IF c.is_pinching /\ pinch_dist > PINCH_OPEN
    THEN LET c1 == [c EXCEPT !.is_pinching = FALSE]
             hold == t - c.pinch_start_time
         IN  IF hold < HOLD_LIMIT /\ t - c1.last_click_time >= CLICK_COOLDOWN
             THEN ClickFamily(c1, peace, t)
             ELSE Blk(c1, <<>>, FALSE)
    ELSE Blk(c, <<>>, FALSE)

\* pinch with hysteresis
PinchBlock(c, peace, pinch_dist, t) ==
    IF ~c.is_pinching /\ pinch_dist < PINCH_CLOSE
    THEN Blk([c EXCEPT !.is_pinching = TRUE, !.pinch_start_time = t], <<>>, FALSE)
    ELSE IF c.is_pinching /\ pinch_dist > PINCH_OPEN
    THEN LET c1 == [c EXCEPT !.is_pinching = FALSE]
             hold == t - c.pinch_start_time
         IN  IF hold < HOLD_LIMIT /\ t - c1.last_click_time > CLICK_COOLDOWN
             THEN ClickFamily(c1, peace, t)
             ELSE Blk(c1, <<>>, FALSE)
    ELSE Blk(c, <<>>, FALSE)

\* FistBlock pressing the button before the fist is confirmed
FistBlock_PressUnconfirmed(c, all_curled) ==
    IF all_curled
    THEN LET r == _confirm_gesture(c, "fist")
         IN  IF ~r.c.is_dragging
             THEN Blk([r.c EXCEPT !.is_dragging = r.ok,
                                  !.gesture_text = "Dragging..."],
                      <<Act("mouseDown")>>, r.ok)
             ELSE Blk([r.c EXCEPT !.gesture_text = "Dragging..."], <<>>, r.ok)
    ELSE IF c.is_dragging
    THEN Blk([c EXCEPT !.is_dragging = FALSE, !.gesture_text = "Released"],
             <<Act("mouseUp")>>, TRUE)
    ELSE Blk(c, <<>>, FALSE)

\* fist = drag
FistBlock(c, all_curled) ==
    IF all_curled
    THEN LET r == _confirm_gesture(c, "fist")
         IN  IF r.ok
             THEN IF ~r.c.is_dragging
                  THEN Blk([r.c EXCEPT !.is_dragging = TRUE,
                                       !.gesture_text = "Dragging..."],
                           <<Act("mouseDown")>>, TRUE)
                  ELSE Blk([r.c EXCEPT !.gesture_text = "Dragging..."], <<>>, TRUE)
             ELSE Blk(r.c, <<>>, FALSE)
    ELSE IF c.is_dragging
    THEN Blk([c EXCEPT !.is_dragging = FALSE, !.gesture_text = "Released"],
             <<Act("mouseUp")>>, TRUE)
    ELSE Blk(c, <<>>, FALSE)

\* int(-delta * 5) without the clamp of line 307
ScrollAmount_NoClamp(delta) == TruncDiv(-delta * SCROLL_GAIN, UNIT)

\* int(-delta * 5) clamped to [-15, 15]; delta in thousandths
ScrollAmount(delta) ==
    Max(-SCROLL_CLAMP, Min(SCROLL_CLAMP, TruncDiv(-delta * SCROLL_GAIN, UNIT)))

\* ScrollBlock waiting one frame more than SCROLL_WAIT
ScrollBlock_WaitOffByOne(c, open_palm, palm_y) ==
    IF open_palm
    THEN LET c1 ==
                 IF ~c.is_scrolling
                 THEN Blk([c EXCEPT !.is_scrolling = TRUE,
                                    !.scroll_origin_y = palm_y,
                                    !.last_scroll_y = palm_y,
                                    !.scroll_frames = 0,
                                    !.gesture_text = "Scroll Ready"], <<>>, TRUE)
                 ELSE LET n == c.scroll_frames + 1
                          c2 == [c EXCEPT !.scroll_frames = n]
                          delta == (palm_y - c.last_scroll_y) * SCROLL_SENSITIVITY
                      IN  IF n > SCROLL_WAIT
                          THEN IF Abs(delta) > SCROLL_MIN_DELTA
                               THEN Blk([c2 EXCEPT !.last_scroll_y = palm_y,
                                           !.gesture_text =
                                               IF delta > 0 THEN "Scroll Down"
                                                            ELSE "Scroll Up",
                                           !.total_scrolls = @ + 1],
                                        <<ActScroll(ScrollAmount(delta))>>, TRUE)
                               ELSE Blk([c2 EXCEPT !.last_scroll_y = palm_y],
                                        <<>>, TRUE)
                          ELSE Blk(c2, <<>>, TRUE)
         IN  Blk(_confirm_gesture(c1.c, "scroll").c, c1.out, TRUE)
    ELSE Blk([c EXCEPT !.is_scrolling = FALSE, !.scroll_frames = 0], <<>>, FALSE)

\* open palm = scroll
ScrollBlock(c, open_palm, palm_y) ==
    IF open_palm
    THEN LET c1 ==
                 IF ~c.is_scrolling
                 THEN Blk([c EXCEPT !.is_scrolling = TRUE,
                                    !.scroll_origin_y = palm_y,
                                    !.last_scroll_y = palm_y,
                                    !.scroll_frames = 0,
                                    !.gesture_text = "Scroll Ready"], <<>>, TRUE)
                 ELSE LET n == c.scroll_frames + 1
                          c2 == [c EXCEPT !.scroll_frames = n]
                          delta == (palm_y - c.last_scroll_y) * SCROLL_SENSITIVITY
                      IN  IF n >= SCROLL_WAIT
                          THEN IF Abs(delta) > SCROLL_MIN_DELTA
                               THEN Blk([c2 EXCEPT !.last_scroll_y = palm_y,
                                           !.gesture_text =
                                               IF delta > 0 THEN "Scroll Down"
                                                            ELSE "Scroll Up",
                                           !.total_scrolls = @ + 1],
                                        <<ActScroll(ScrollAmount(delta))>>, TRUE)
                               ELSE Blk([c2 EXCEPT !.last_scroll_y = palm_y],
                                        <<>>, TRUE)
                          ELSE Blk(c2, <<>>, TRUE)
         IN  Blk(_confirm_gesture(c1.c, "scroll").c, c1.out, TRUE)
    ELSE Blk([c EXCEPT !.is_scrolling = FALSE, !.scroll_frames = 0], <<>>, FALSE)

\* default: pointing > pinch hold > peace > idle
DefaultBlock(c, pointing, peace) ==
    IF pointing
    THEN [_confirm_gesture(c, "point").c EXCEPT !.gesture_text = "Pointing"]
    ELSE IF c.is_pinching
    THEN [_confirm_gesture(c, "pinch").c EXCEPT !.gesture_text = "Pinch Hold"]
    ELSE IF peace
    THEN [_confirm_gesture(c, "peace").c EXCEPT !.gesture_text = "Peace"]
    ELSE [_confirm_gesture(c, "idle").c EXCEPT !.gesture_text = "Idle"]

\* process(landmarks) at clock value t with cfg.SMOOTH_BASE = base:
\* the controller afterwards and the OS calls made, in order
\* process() moving the cursor only on frames that reach the default block
process_MoveWhenIdle(c, base, lm, t) ==
    LET f == lm.fingers
        target == _map_to_screen(lm.tip[1], lm.tip[2])
        mv == _smooth_move(c, base, target[1], target[2])
        move == <<ActMove(mv.sx, mv.sy)>>
        p == PinchBlock(mv.c, Peace(f), lm.pinch_dist, t)
        d == FistBlock(p.c, AllCurled(f))
        s == ScrollBlock(d.c, OpenPalm(f), lm.palm_y)
    IN  IF p.ret THEN [c |-> p.c, out |-> p.out]
        ELSE IF d.ret THEN [c |-> d.c, out |-> p.out \o d.out]
        ELSE IF s.ret THEN [c |-> s.c, out |-> p.out \o d.out \o s.out]
        ELSE [c |-> DefaultBlock(s.c, Pointing(f), Peace(f)),
              out |-> move \o p.out \o d.out \o s.out]

process(c, base, lm, t) ==
    LET f == lm.fingers
        target == _map_to_screen(lm.tip[1], lm.tip[2])
        mv == _smooth_move(c, base, target[1], target[2])
        move == <<ActMove(mv.sx, mv.sy)>>
        p == PinchBlock(mv.c, Peace(f), lm.pinch_dist, t)
        d == FistBlock(p.c, AllCurled(f))
        s == ScrollBlock(d.c, OpenPalm(f), lm.palm_y)
    IN  IF p.ret THEN [c |-> p.c, out |-> move \o p.out]
        ELSE IF d.ret THEN [c |-> d.c, out |-> move \o p.out \o d.out]
        ELSE IF s.ret THEN [c |-> s.c, out |-> move \o p.out \o d.out \o s.out]
        ELSE [c |-> DefaultBlock(s.c, Pointing(f), Peace(f)),
              out |-> move \o p.out \o d.out \o s.out]

\* on_hand_lost leaving the gesture history as it is
on_hand_lost_KeepHistory(c) ==
    [c |-> [c EXCEPT !.is_dragging = FALSE,
                     !.is_scrolling = FALSE,
                     !.is_pinching = FALSE,
                     !.scroll_frames = 0,
                     !.gesture_text = "No hand",
                     !.current_confirmed_gesture = "idle"],
     out |-> IF c.is_dragging THEN <<Act("mouseUp")>> ELSE <<>>]

on_hand_lost(c) ==
    [c |-> [c EXCEPT !.is_dragging = FALSE,
                     !.is_scrolling = FALSE,
                     !.is_pinching = FALSE,
                     !.scroll_frames = 0,
                     !.gesture_text = "No hand",
                     !.current_confirmed_gesture = "idle",
                     !.gesture_history = <<>>],
     out |-> IF c.is_dragging THEN <<Act("mouseUp")>> ELSE <<>>]

----------------------------------------------------------------------------
(* History of the processed frames, kept beside the program state so that  *)
(* statements about runs of frames can be written as state predicates.     *)
(*   fist_run    consecutive processed all-curled frames, counted from a   *)
(*               run that began with no drag active and the confirmed      *)
(*               gesture not 'fist' (-1 inside a run that began otherwise) *)
(*   palm_streak consecutive processed open-palm frames                    *)
(*   scen_n      position in a run of open-palm frames that began in a     *)
(*               non-scrolling state and whose palm Y rose on every frame  *)
(*   scen_y      palm Y of the last frame of that run                      *)
(*   scen_ok     every frame of that run reached the scroll block and,     *)
(*               after the first, rose by more than the scroll threshold   *)
(*   fed         the labels given to _confirm_gesture alone (see InitFed)  *)
(*   click_at    clock value of the last click-family event of a pinch     *)
(*               release (0 before the first one)                          *)
(*   click_gap   time between the last two such events (0 before the       *)
(*               second one)                                               *)
(*   click_blocked  pinch releases so far that came no later than          *)
(*               CLICK_COOLDOWN after click_at                             *)
(* The counters stop at RunCap.                                            *)

RunCap == 6
\* what `runs.fed` records of the labels given to _confirm_gesture: the
\* label of the current run of equal labels, its length, the confirmed label
\* when it began, the result of the last call, and the same for the run
\* before it
InitFed == [label |-> "", run |-> 0, from |-> "idle", ok |-> FALSE,
            plabel |-> "", prun |-> 0, pfrom |-> "idle"]
InitRuns == [fist_run |-> 0, palm_streak |-> 0, scen_n |-> 0, scen_y |-> 0,
             scen_ok |-> FALSE, fed |-> InitFed,
             click_at |-> 0, click_gap |-> 0, click_blocked |-> 0]

EndedEarly(acts) ==
    Ops(acts) \cap {"click", "doubleClick", "rightClick", "mouseUp"} # {}

RunsAfter(r, c, lm, acts) ==
    LET f == lm.fingers
        rising == lm.palm_y > r.scen_y
        steep == (lm.palm_y - r.scen_y) * SCROLL_SENSITIVITY > SCROLL_MIN_DELTA
    IN  [ fist_run |->
              IF ~AllCurled(f) THEN 0
              ELSE IF r.fist_run = 0
                   THEN IF ~c.is_dragging /\ c.current_confirmed_gesture # "fist"
                        THEN 1 ELSE -1
                   ELSE IF r.fist_run < 0 THEN -1
                   ELSE Min(RunCap, r.fist_run + 1),
          palm_streak |->
              IF OpenPalm(f) THEN Min(RunCap, r.palm_streak + 1) ELSE 0,
          scen_n |->
              IF ~OpenPalm(f) THEN 0
              ELSE IF ~c.is_scrolling THEN 1
              ELSE IF r.scen_n >= 1 /\ rising THEN Min(RunCap, r.scen_n + 1)
              ELSE 0,
          scen_y |-> IF OpenPalm(f) THEN lm.palm_y ELSE 0,
          scen_ok |->
              IF ~OpenPalm(f) THEN FALSE
              ELSE IF ~c.is_scrolling THEN ~EndedEarly(acts)
              ELSE r.scen_n >= 1 /\ r.scen_ok /\ steep /\ ~EndedEarly(acts),
          fed |-> r.fed,
          click_at |-> r.click_at,
          click_gap |-> r.click_gap,
          click_blocked |-> r.click_blocked ]

\* the frame lm releases a pinch of controller c
PinchRelease(c, lm) == c.is_pinching /\ lm.pinch_dist > PINCH_OPEN
\* click, double-click, right-click, or the release of a drag
ClickFamilyOps == {"click", "doubleClick", "rightClick", "mouseUp"}
\* process() on a pinch release made a click-family call
ClickEvent(c, lm, acts) ==
    PinchRelease(c, lm) /\ Ops(acts) \cap ClickFamilyOps # {}

\* the click history after process() ran at clock value t
ClicksAfter(r, c, lm, acts, t) ==
    IF ClickEvent(c, lm, acts)
    THEN [r EXCEPT !.click_at = t,
                   !.click_gap = IF r.click_at > 0 THEN t - r.click_at ELSE 0]
    ELSE IF PinchRelease(c, lm) /\ r.click_at > 0
            /\ t - r.click_at <= CLICK_COOLDOWN
    THEN [r EXCEPT !.click_blocked = Min(RunCap, @ + 1)]
    ELSE r

FedAfter(f, c, gesture, ok) ==
    IF f.run > 0 /\ f.label = gesture
    THEN [f EXCEPT !.run = Min(RunCap, @ + 1), !.ok = ok]
    ELSE [label |-> gesture, run |-> 1, from |-> c.current_confirmed_gesture,
          ok |-> ok, plabel |-> f.label, prun |-> f.run, pfrom |-> f.from]

----------------------------------------------------------------------------
(* main(): the frame loop.  pc = "read" before cap.read(), "key" before    *)
(* cv2.waitKey(), "exit" after the loop, "done" after the final            *)
(* on_hand_lost().                                                         *)

\* what `last` records of a step: the operation, the frame it was given,
\* and the mode flags, the smoothed position and the SMOOTH_BASE the
\* session had when the step began
Step(op, lm) ==
    [op |-> op, lm |-> lm,
     pre |-> [is_pinching |-> ctrl.is_pinching,
              is_dragging |-> ctrl.is_dragging,
              is_scrolling |-> ctrl.is_scrolling,
              smooth_x |-> ctrl.smooth_x,
              smooth_y |-> ctrl.smooth_y,
              base |-> SMOOTH_BASE]]

Init ==
    /\ ctrl = InitCtrl
    /\ SMOOTH_BASE = SMOOTH_BASE_INIT
    /\ no_hand_frames = 0
    /\ pc = "read"
    /\ now = T0
    /\ buttonHeld = FALSE
    /\ out = <<>>
    /\ last = [op |-> "init", lm |-> NoFrame,
               pre |-> [is_pinching |-> FALSE, is_dragging |-> FALSE,
                        is_scrolling |-> FALSE,
                        smooth_x |-> InitCtrl.smooth_x,
                        smooth_y |-> InitCtrl.smooth_y,
                        base |-> SMOOTH_BASE_INIT]]
    /\ runs = InitRuns

Followed(c) ==
    /\ c.total_clicks <= MaxClicks
    /\ c.total_scrolls <= MaxScrolls
    /\ c.scroll_frames <= MaxScrollFrames
    /\ c.gesture_frame_count <= MaxGestureFrames

\* the controller call of a loop step: its effect on the controller and the OS
Call(r, op, lm) ==
    /\ Followed(r.c)
    /\ ctrl' = r.c
    /\ out' = r.out
    /\ buttonHeld' = ButtonAfter(buttonHeld, r.out)
    /\ last' = Step(op, lm)

\* the clock advances by dt between two frames; it is followed up to `until`
Tick(dt, until) == now + dt <= until /\ now' = now + dt

\* line 441-444: cap.isOpened() is false or cap.read() fails
ReadFail ==
    /\ pc = "read"
    /\ pc' = "exit"
    /\ out' = <<>>
    /\ last' = Step("readfail", NoFrame)
    /\ UNCHANGED <<ctrl, SMOOTH_BASE, no_hand_frames, now, buttonHeld, runs>>

\* line 457: paused, the frame is not interpreted
PausedFrame(dts, until) ==
    /\ pc = "read"
    /\ ctrl.paused
    /\ \E dt \in dts : Tick(dt, until)
    /\ pc' = "key"
    /\ out' = <<>>
    /\ last' = Step("skip", NoFrame)
    /\ UNCHANGED <<ctrl, SMOOTH_BASE, no_hand_frames, buttonHeld, runs>>

\* lines 462-473: a hand is detected
HandFrame(lms, dts, until) ==
    /\ pc = "read"
    /\ ~ctrl.paused
    /\ \E lm \in lms, dt \in dts :
          LET r == process(ctrl, SMOOTH_BASE, lm, now + dt)
          IN  /\ Tick(dt, until)
              /\ Call(r, "process", lm)
              /\ runs' = ClicksAfter(RunsAfter(runs, ctrl, lm, r.out),
                                      ctrl, lm, r.out, now + dt)
    /\ no_hand_frames' = 0
    /\ pc' = "key"
    /\ UNCHANGED SMOOTH_BASE

\* the no-hand branch declaring the hand lost one frame early
NoHandFrame_Eager(dts, until) ==
    /\ pc = "read"
    /\ ~ctrl.paused
    /\ no_hand_frames < MaxNoHand
    /\ \E dt \in dts : Tick(dt, until)
    /\ no_hand_frames' = no_hand_frames + 1
    /\ IF no_hand_frames + 1 >= HAND_LOST_AFTER - 1
       THEN Call(on_hand_lost(ctrl), "lost", NoFrame)
       ELSE /\ out' = <<>>
            /\ last' = Step("nohand", NoFrame)
            /\ UNCHANGED <<ctrl, buttonHeld>>
    /\ pc' = "key"
    /\ UNCHANGED <<SMOOTH_BASE, runs>>

\* lines 474-477: no hand is detected
NoHandFrame(dts, until) ==
    /\ pc = "read"
    /\ ~ctrl.paused
    /\ no_hand_frames < MaxNoHand
    /\ \E dt \in dts : Tick(dt, until)
    /\ no_hand_frames' = no_hand_frames + 1
    /\ IF no_hand_frames + 1 >= HAND_LOST_AFTER
       THEN Call(on_hand_lost(ctrl), "lost", NoFrame)
       ELSE /\ out' = <<>>
            /\ last' = Step("nohand", NoFrame)
            /\ UNCHANGED <<ctrl, buttonHeld>>
    /\ pc' = "key"
    /\ UNCHANGED <<SMOOTH_BASE, runs>>

\* line 482: no key of interest
KeyNone ==
    /\ pc = "key"
    /\ pc' = "read"
    /\ UNCHANGED <<ctrl, SMOOTH_BASE, no_hand_frames, now, buttonHeld, out, last, runs>>

\* lines 483-484
KeyQuit ==
    /\ pc = "key"
    /\ pc' = "exit"
    /\ out' = <<>>
    /\ last' = Step("quit", NoFrame)
    /\ UNCHANGED <<ctrl, SMOOTH_BASE, no_hand_frames, now, buttonHeld, runs>>

\* the pause key toggling ctrl.paused without the call of on_hand_lost()
KeyPause_NoRelease ==
    /\ pc = "key"
    /\ LET c == [ctrl EXCEPT !.paused = ~ctrl.paused]
       IN  Call([c |-> c, out |-> <<>>], IF c.paused THEN "pause" ELSE "resume",
                NoFrame)
    /\ pc' = "read"
    /\ UNCHANGED <<SMOOTH_BASE, no_hand_frames, now, runs>>

\* lines 485-491
KeyPause ==
    /\ pc = "key"
    /\ LET c == [ctrl EXCEPT !.paused = ~ctrl.paused]
       IN  IF c.paused
           THEN Call(on_hand_lost(c), "pause", NoFrame)
           ELSE Call([c |-> c, out |-> <<>>], "resume", NoFrame)
    /\ pc' = "read"
    /\ UNCHANGED <<SMOOTH_BASE, no_hand_frames, now, runs>>

\* the '+' key without the upper clamp
KeyPlus_Unclamped ==
    /\ pc = "key"
    /\ SMOOTH_BASE' = SMOOTH_BASE + SMOOTH_STEP
    /\ pc' = "read"
    /\ out' = <<>>
    /\ last' = Step("plus", NoFrame)
    /\ UNCHANGED <<ctrl, no_hand_frames, now, buttonHeld, runs>>

\* lines 492-494
KeyPlus ==
    /\ pc = "key"
    /\ SMOOTH_BASE' = Min(SMOOTH_MAX, SMOOTH_BASE + SMOOTH_STEP)
    /\ pc' = "read"
    /\ out' = <<>>
    /\ last' = Step("plus", NoFrame)
    /\ UNCHANGED <<ctrl, no_hand_frames, now, buttonHeld, runs>>

\* lines 495-497
KeyMinus ==
    /\ pc = "key"
    /\ SMOOTH_BASE' = Max(SMOOTH_MIN, SMOOTH_BASE - SMOOTH_STEP)
    /\ pc' = "read"
    /\ out' = <<>>
    /\ last' = Step("minus", NoFrame)
    /\ UNCHANGED <<ctrl, no_hand_frames, now, buttonHeld, runs>>

\* the end of main() without the final on_hand_lost()
Shutdown_NoRelease ==
    /\ pc = "exit"
    /\ Call([c |-> ctrl, out |-> <<>>], "shutdown", NoFrame)
    /\ pc' = "done"
    /\ UNCHANGED <<SMOOTH_BASE, no_hand_frames, now, runs>>

\* line 499: the final on_hand_lost()
Shutdown ==
    /\ pc = "exit"
    /\ Call(on_hand_lost(ctrl), "shutdown", NoFrame)
    /\ pc' = "done"
    /\ UNCHANGED <<SMOOTH_BASE, no_hand_frames, now, runs>>

----------------------------------------------------------------------------
(* Spec: the gesture interpreter under the frame loop, one frame every     *)
(* FrameInterval, for the first Horizon frames.  The fingertip is held at  *)
(* the image centre and the sensitivity keys are not pressed: the cursor   *)
(* state and SMOOTH_BASE are read only by _smooth_move, which writes       *)
(* nothing that the gesture blocks read.                                   *)

FrameInterval == 50
Horizon == 7
Frames ==
    {lm \in Landmarks({FIST, POINT, PALM}, {30, 70}, {PalmY0}, Tips) :
        lm.fingers = POINT \/ lm.pinch_dist = 70}

Next ==
    \/ ReadFail
    \/ PausedFrame({FrameInterval}, T0 + Horizon * FrameInterval)
    \/ HandFrame(Frames, {FrameInterval}, T0 + Horizon * FrameInterval)
    \/ NoHandFrame({FrameInterval}, T0 + Horizon * FrameInterval)
    \/ KeyNone
    \/ KeyQuit
    \/ KeyPause
    \/ Shutdown

Spec == Init /\ [][Next]_vars

\* SpecLive: the same, with the statements after the loop (lines 499-502)
\* executed once the loop has ended: main() is sequential code.
SpecLive == Init /\ [][Next]_vars /\ WF_vars(Shutdown)

----------------------------------------------------------------------------
(* SpecPinch: pinch timing.  Pointing hands with pinch distances on both   *)
(* sides of and on the two thresholds, a peace hand with the pinch open,   *)
(* and frames that arrive after FrameInterval or after a long gap.         *)

LongInterval == 400
HorizonPinch == 10
PinchFrames ==
    Landmarks({POINT}, {30, PINCH_CLOSE, PINCH_OPEN, 70}, {PalmY0}, Tips)
        \cup Landmarks({PEACE}, {70}, {PalmY0}, Tips)
PinchIntervals == {FrameInterval, LongInterval}
PinchUntil == T0 + HorizonPinch * FrameInterval

NextPinch ==
    \/ ReadFail
    \/ HandFrame(PinchFrames, PinchIntervals, PinchUntil)
    \/ NoHandFrame({LongInterval}, PinchUntil)
    \/ KeyNone
    \/ KeyQuit
    \/ Shutdown

SpecPinch == Init /\ [][NextPinch]_vars

----------------------------------------------------------------------------
(* SpecScroll: scrolling.  Open palms at several heights (at one of them   *)
(* also with the thumb tip on the index tip) and pointing hands.           *)

HorizonScroll == 6
PalmYs == {500, 504, 509, 514, 519, 524}
ScrollFrames ==
    Landmarks({PALM}, {70}, PalmYs, Tips)
        \cup Landmarks({PALM}, {30}, {509}, Tips)
        \cup Landmarks({POINT}, {30, 70}, {PalmY0}, Tips)
ScrollUntil == T0 + HorizonScroll * FrameInterval

NextScroll ==
    \/ ReadFail
    \/ HandFrame(ScrollFrames, {FrameInterval}, ScrollUntil)
    \/ NoHandFrame({FrameInterval}, ScrollUntil)
    \/ KeyNone
    \/ KeyQuit
    \/ Shutdown

SpecScroll == Init /\ [][NextScroll]_vars

----------------------------------------------------------------------------
(* SpecAmount: scroll amounts.  Open palms whose height changes, between   *)
(* two frames, by less than the scroll threshold, by just more than it, by *)
(* amounts on both sides of the clamp, and by most of the image; an open   *)
(* palm with the thumb tip on the index tip, whose release returns before  *)
(* the scroll block; and a pointing hand, which ends the scroll.           *)

HorizonAmount == 6
AmountYs == {100, 500, 504, 505, 564, 569, 900}
AmountFrames ==
    Landmarks({PALM}, {70}, AmountYs, Tips)
        \cup Landmarks({PALM}, {30}, {505}, Tips)
        \cup Landmarks({POINT}, {70}, {PalmY0}, Tips)

NextAmount ==
    \/ HandFrame(AmountFrames, {FrameInterval}, T0 + HorizonAmount * FrameInterval)
    \/ KeyNone

SpecAmount == Init /\ [][NextAmount]_vars

----------------------------------------------------------------------------
(* SpecHands: the gesture predicates.  Frames with every assignment of     *)
(* extended/curled to the five digits, the pinch open.                     *)

HorizonHands == 3
HandsFrames == Landmarks(AllFingers, {70}, {PalmY0}, Tips)

NextHands ==
    \/ HandFrame(HandsFrames, {FrameInterval}, T0 + HorizonHands * FrameInterval)
    \/ KeyNone

SpecHands == Init /\ [][NextHands]_vars

----------------------------------------------------------------------------
(* SpecKeys: the sensitivity keys.  A pointing hand at the image centre    *)
(* on every frame, and after each frame no key, '+' or '-'.                *)

HorizonKeys == 12
KeysFrames == Landmarks({POINT}, {70}, {PalmY0}, Tips)

NextKeys ==
    \/ HandFrame(KeysFrames, {FrameInterval}, T0 + HorizonKeys * FrameInterval)
    \/ KeyNone
    \/ KeyPlus
    \/ KeyMinus

SpecKeys == Init /\ [][NextKeys]_vars

----------------------------------------------------------------------------
(* SpecCursor: cursor smoothing.  A pointing hand whose index fingertip is *)
(* at the image centre, below it, or at a third place between the two.     *)
(* The user presses '+' only before moving the hand off the centre.        *)

HorizonCursor == 10
CursorTips == {<<500, 500>>, <<500, 600>>, <<500, 551>>}
CursorFrames == Landmarks({POINT}, {70}, {PalmY0}, CursorTips)

\* lines 492-494, pressed while the last target was the image centre
KeyPlusAtRest == ctrl.prev_target_y = InitCtrl.prev_target_y /\ KeyPlus

NextCursor ==
    \/ HandFrame(CursorFrames, {FrameInterval}, T0 + HorizonCursor * FrameInterval)
    \/ KeyNone
    \/ KeyPlusAtRest

SpecCursor == Init /\ [][NextCursor]_vars

----------------------------------------------------------------------------
(* SpecScreen: the cursor and the screen edges.  A pointing hand whose     *)
(* index fingertip is at the image centre, on the margin lines (which map  *)
(* to one pixel past the right and bottom edges), or outside the image on  *)
(* either side; after each frame no key, '+' or '-'.                       *)

HorizonScreen == 5
ScreenTips ==
    {<<500, 500>>, <<100, 900>>, <<900, 100>>, <<-200, -200>>, <<1200, 1200>>}
ScreenFrames == Landmarks({POINT}, {70}, {PalmY0}, ScreenTips)

NextScreen ==
    \/ HandFrame(ScreenFrames, {FrameInterval}, T0 + HorizonScreen * FrameInterval)
    \/ KeyNone
    \/ KeyPlus
    \/ KeyMinus

SpecScreen == Init /\ [][NextScreen]_vars

----------------------------------------------------------------------------
(* SpecConfirm: the confirmation filter alone.  A freshly constructed      *)
(* controller is given one label per frame, for HorizonConfirm frames      *)
(* (more than the history holds).                                          *)

HorizonConfirm == 9
Labels == {"idle", "point", "fist"}

\* one call of _confirm_gesture (lines 196-212) on the next frame's label
ConfirmFrame(labels, until) ==
    /\ pc = "read"
    /\ Tick(FrameInterval, until)
    /\ \E gesture \in labels :
          LET r == _confirm_gesture(ctrl, gesture)
          IN  /\ Followed(r.c)
              /\ ctrl' = r.c
              /\ runs' = [runs EXCEPT
                            !.fed = FedAfter(@, ctrl, gesture, r.ok)]
    /\ out' = <<>>
    /\ last' = Step("confirm", NoFrame)
    /\ UNCHANGED <<SMOOTH_BASE, no_hand_frames, pc, buttonHeld>>

NextConfirm == ConfirmFrame(Labels, T0 + HorizonConfirm * FrameInterval)

SpecConfirm == Init /\ [][NextConfirm]_vars

----------------------------------------------------------------------------
(* Steps, as seen from the state before and the state after.               *)

\* a step of HandFrame: process() ran on the frame last'.lm at time now'
ProcStep == pc = "read" /\ last'.op = "process"
\* a step that invokes on_hand_lost()
LostStep ==
    \/ pc = "read" /\ last'.op = "lost"
    \/ pc = "key" /\ last'.op = "pause"
    \/ pc = "exit" /\ pc' = "done"
\* the state on_hand_lost() leaves
Released(c) ==
    /\ ~c.is_dragging /\ ~c.is_pinching /\ ~c.is_scrolling
    /\ c.scroll_frames = 0
    /\ c.current_confirmed_gesture = "idle"
    /\ c.gesture_history = <<>>
ClickOps == {"click", "doubleClick", "rightClick"}

----------------------------------------------------------------------------
(* Claims checked under Spec.                                              *)

\* C1: after every operation the OS left button is held if and only if
\* is_dragging is true.
C1_DragInvariant == buttonHeld = ctrl.is_dragging

\* C1 witness: a frame has emitted a left click (the button went down and up)
\* and three all-curled frames have been processed; the button is free and
\* no drag is active.
C1_Witness ==
    /\ last.op = "process"
    /\ runs.fist_run >= 3
    /\ ctrl.total_clicks >= 1
    /\ ~buttonHeld /\ ~ctrl.is_dragging

\* C2: on the third of three consecutive all-curled frames that began with
\* no drag active and the confirmed gesture not 'fist', 'fist' is confirmed,
\* a button-down is emitted and is_dragging is set.
C2_FistStartsDrag ==
    (last.op = "process" /\ runs.fist_run = 3) =>
        /\ ctrl.current_confirmed_gesture = "fist"
        /\ ctrl.is_dragging
        /\ "mouseDown" \in Ops(out)

\* C4: every invocation of on_hand_lost() emits exactly one button-up if a
\* drag was active and nothing otherwise, leaves the released state, and
\* when invoked in the released state emits nothing and changes nothing.
C4_HandLost ==
    [][LostStep =>
        /\ out' = IF ctrl.is_dragging THEN <<Act("mouseUp")>> ELSE <<>>
        /\ Released(ctrl')
        /\ (Released(ctrl) /\ ctrl.gesture_text = "No hand" =>
                /\ out' = <<>>
                /\ [ctrl' EXCEPT !.paused = ctrl.paused] = ctrl)]_vars

\* C4 witness: on_hand_lost() has run on the third no-hand frame after two
\* open-palm frames (scroll mode was on), and has run again on the fourth.
C4_Witness ==
    /\ last.op = "lost"
    /\ last.pre.is_scrolling = FALSE
    /\ no_hand_frames = HAND_LOST_AFTER + 1
    /\ runs.palm_streak >= 2
    /\ Released(ctrl)

----------------------------------------------------------------------------
(* Claims checked under SpecPinch.                                         *)

\* C3: a pinch release (hold < 0.45 s, no drag, peace false) that falls
\* inside DOUBLE_CLICK_WINDOW after a single left click emits a double-click
\* and clears last_single_click_time.
C3_DoubleClick ==
    [][(/\ ProcStep
        /\ ctrl.is_pinching /\ last'.lm.pinch_dist > PINCH_OPEN
        /\ now' - ctrl.pinch_start_time < HOLD_LIMIT
        /\ ~ctrl.is_dragging /\ ~Peace(last'.lm.fingers)
        /\ ctrl.last_single_click_time > 0
        /\ now' - ctrl.last_single_click_time < DOUBLE_CLICK_WINDOW)
       => /\ "doubleClick" \in Ops(out')
          /\ ctrl'.last_single_click_time = 0]_vars

\* C5: through process(), is_pinching stays true on every frame whose pinch
\* distance is at most PINCH_OPEN, becomes false only on a frame whose
\* distance is above PINCH_OPEN, and becomes true only on a frame whose
\* distance is below PINCH_CLOSE.
C5_Hysteresis ==
    [][ProcStep =>
        /\ (ctrl.is_pinching /\ last'.lm.pinch_dist <= PINCH_OPEN
                => ctrl'.is_pinching)
        /\ (ctrl.is_pinching /\ ~ctrl'.is_pinching
                => last'.lm.pinch_dist > PINCH_OPEN)
        /\ (~ctrl.is_pinching /\ ctrl'.is_pinching
                => last'.lm.pinch_dist < PINCH_CLOSE)]_vars

\* C5 witness: a frame with the distance inside the band was processed while
\* the pinch was closed, and the pinch is still closed.
C5_Witness ==
    /\ last.op = "process"
    /\ last.pre.is_pinching
    /\ last.lm.pinch_dist > PINCH_CLOSE /\ last.lm.pinch_dist <= PINCH_OPEN
    /\ ctrl.is_pinching

\* C7: a release with hold < 0.45 s, the cooldown elapsed, no drag, peace
\* false and no single click inside the double-click window emits exactly
\* one left click and no other click on that frame; a frame that is not a
\* pinch release emits no click of any kind.
C7_QuickRelease ==
    [][ProcStep =>
        LET release == ctrl.is_pinching /\ last'.lm.pinch_dist > PINCH_OPEN
            quick ==
                /\ release
                /\ now' - ctrl.pinch_start_time < HOLD_LIMIT
                /\ now' - ctrl.last_click_time > CLICK_COOLDOWN
                /\ ~ctrl.is_dragging /\ ~Peace(last'.lm.fingers)
                /\ ~(now' - ctrl.last_single_click_time < DOUBLE_CLICK_WINDOW)
        IN  /\ quick => /\ CountOp(out', "click") = 1
                        /\ Ops(out') \cap ClickOps = {"click"}
            /\ ~release => Ops(out') \cap ClickOps = {}]_vars

\* C7 witness: the release frame of a pinch has emitted a left click.
C7_Witness ==
    /\ last.op = "process"
    /\ last.pre.is_pinching /\ last.lm.pinch_dist > PINCH_OPEN
    /\ "click" \in Ops(out)
    /\ ctrl.last_single_click_time = now

\* C8: a release after a hold of 0.45 s or more emits no click, double-click
\* or right-click and leaves last_click_time, last_single_click_time,
\* last_right_click_time and total_clicks unchanged (no pinch-driven drag
\* release, which would set last_click_time).
C8_AbortedPinch ==
    [][(/\ ProcStep
        /\ ctrl.is_pinching /\ last'.lm.pinch_dist > PINCH_OPEN
        /\ now' - ctrl.pinch_start_time >= HOLD_LIMIT)
       => /\ Ops(out') \cap ClickOps = {}
          /\ "mouseUp" \notin Ops(out')
          /\ ~ctrl'.is_pinching
          /\ ctrl'.last_click_time = ctrl.last_click_time
          /\ ctrl'.last_single_click_time = ctrl.last_single_click_time
          /\ ctrl'.last_right_click_time = ctrl.last_right_click_time
          /\ ctrl'.total_clicks = ctrl.total_clicks]_vars

\* C8 witness: a pinch was released after a hold of at least HOLD_LIMIT
\* although the click cooldown had elapsed.
C8_Witness ==
    /\ last.op = "process"
    /\ last.pre.is_pinching /\ last.lm.pinch_dist > PINCH_OPEN
    /\ now - ctrl.pinch_start_time >= HOLD_LIMIT
    /\ now - ctrl.last_click_time > CLICK_COOLDOWN
    /\ ~ctrl.is_pinching

\* C15: a release with hold < 0.45 s and the click cooldown elapsed, while
\* no drag is active and peace holds, emits exactly one right-click and no
\* left click or double-click and adds 1 to total_clicks; and
\* last_right_click_time never exceeds last_click_time, so the right-click
\* cooldown cannot suppress it.
C15_RightClickOnPeace ==
    [][ProcStep =>
        /\ ctrl'.last_right_click_time <= ctrl'.last_click_time
        /\ ((/\ ctrl.is_pinching /\ last'.lm.pinch_dist > PINCH_OPEN
             /\ now' - ctrl.pinch_start_time < HOLD_LIMIT
             /\ now' - ctrl.last_click_time > CLICK_COOLDOWN
             /\ ~ctrl.is_dragging /\ Peace(last'.lm.fingers))
            => /\ CountOp(out', "rightClick") = 1
               /\ Ops(out') \cap ClickOps = {"rightClick"}
               /\ ctrl'.total_clicks = ctrl.total_clicks + 1
               /\ ctrl'.last_right_click_time = now')]_vars

\* C15 witness: a second right-click has been emitted, the first one being
\* the only click before it.
C15_Witness ==
    /\ last.op = "process"
    /\ "rightClick" \in Ops(out)
    /\ ctrl.total_clicks = 2
    /\ ctrl.last_single_click_time = 0
    /\ ctrl.last_right_click_time = now

\* C21: two successive click-family events of pinch releases (click,
\* double-click, right-click, drag release) are more than CLICK_COOLDOWN
\* apart; a pinch release no later than CLICK_COOLDOWN after the last such
\* event, or after last_click_time, makes no click-family call and leaves
\* last_click_time as it was.
C21_CooldownSeparation ==
    [][ProcStep =>
        LET release == PinchRelease(ctrl, last'.lm)
            inside ==
                \/ now' - ctrl.last_click_time <= CLICK_COOLDOWN
                \/ runs.click_at > 0 /\ now' - runs.click_at <= CLICK_COOLDOWN
        IN  /\ (ClickEvent(ctrl, last'.lm, out') /\ runs.click_at > 0)
                    => now' - runs.click_at > CLICK_COOLDOWN
            /\ (release /\ inside)
                    => /\ Ops(out') \cap ClickFamilyOps = {}
                       /\ ctrl'.last_click_time = ctrl.last_click_time]_vars

\* C21 witness: a second click-family event has just been emitted, after a
\* quick pinch release in between that the cooldown held back.
C21_Witness ==
    /\ last.op = "process"
    /\ Ops(out) \cap ClickFamilyOps # {}
    /\ runs.click_at = now
    /\ runs.click_gap > CLICK_COOLDOWN
    /\ runs.click_blocked >= 1

----------------------------------------------------------------------------
(* Claims checked under SpecScroll.                                        *)

ScrollsDown(acts) == \E i \in 1..Len(acts) : acts[i].op = "scroll" /\ acts[i].x < 0

\* C9 as stated: in a run of open-palm frames that began in a non-scrolling
\* state and whose palm Y rises on every frame, frames 1 to 3 emit no scroll
\* and frames 4 and 5 emit a scroll with negative amount.
C9_ScrollScenario ==
    last.op = "process" =>
        /\ (runs.scen_n \in 1..3 => "scroll" \notin Ops(out))
        /\ (runs.scen_n \in 4..5 => ScrollsDown(out))

\* C9 amended: the same, for runs in which no frame ends early with a click
\* or a button release and the palm Y rises by more than 0.004 (|delta| >
\* 0.2) from each frame to the next.
C9_ScrollScenarioSteep ==
    (last.op = "process" /\ runs.scen_ok) =>
        /\ (runs.scen_n \in 1..3 => "scroll" \notin Ops(out))
        /\ (runs.scen_n \in 4..5 => ScrollsDown(out))

\* C9 witness: the fifth frame of such a run has emitted its scroll.
C9_Witness ==
    /\ last.op = "process"
    /\ runs.scen_ok /\ runs.scen_n = 5
    /\ ScrollsDown(out)
    /\ ctrl.total_scrolls = 2

\* C10: a scroll is emitted only on a frame that is the fourth or later of
\* consecutive processed open-palm frames, and every processed frame that is
\* not an open palm leaves is_scrolling false and scroll_frames 0.
C10_ScrollNeedsPalmRun ==
    last.op = "process" =>
        /\ ("scroll" \in Ops(out) => runs.palm_streak >= 4)
        /\ (~OpenPalm(last.lm.fingers) =>
                ~ctrl.is_scrolling /\ ctrl.scroll_frames = 0)

PrimaryOps ==
    {"click", "doubleClick", "rightClick", "mouseDown", "mouseUp", "scroll"}

\* C14: every call of process() emits exactly one cursor move, emits it
\* first, and emits at most one primary action after it.
C14_ActionDiscipline ==
    last.op = "process" =>
        /\ Len(out) \in {1, 2}
        /\ out[1].op = "moveTo"
        /\ CountOp(out, "moveTo") = 1
        /\ (Len(out) = 2 => out[2].op \in PrimaryOps)

\* C14 witness: a frame has emitted its cursor move and then a scroll, in a
\* session in which a frame has also emitted a click.
C14_Witness ==
    /\ last.op = "process"
    /\ Len(out) = 2 /\ out[1].op = "moveTo" /\ out[2].op = "scroll"
    /\ ctrl.total_clicks >= 1

----------------------------------------------------------------------------
(* Claims checked under SpecAmount.                                        *)

\* C22: process() makes at most one scroll call per frame; its amount has
\* a magnitude from 1 to SCROLL_CLAMP (never 0) and is negative exactly when
\* the palm Y of the frame is above last_scroll_y, the palm Y the scroll
\* block recorded last; total_scrolls grows by 1 on a frame with a scroll
\* call and is left alone by every other step.
C22_BoundedScroll ==
    [][IF ProcStep
       THEN /\ CountOp(out', "scroll") <= 1
            /\ ctrl'.total_scrolls = ctrl.total_scrolls + CountOp(out', "scroll")
            /\ \A i \in 1..Len(out') :
                  out'[i].op = "scroll" =>
                      /\ Abs(out'[i].x) \in 1..SCROLL_CLAMP
                      /\ last'.lm.palm_y # ctrl.last_scroll_y
                      /\ out'[i].x < 0 <=> last'.lm.palm_y > ctrl.last_scroll_y
       ELSE ctrl'.total_scrolls = ctrl.total_scrolls]_vars

\* C22 witness: the palm dropped to the lowest height of the alphabet, far
\* more than the clamp passes on, and the frame made the second scroll call
\* of the session, down by the full clamp.
C22_Witness ==
    /\ last.op = "process"
    /\ Len(out) = 2 /\ out[2] = ActScroll(-SCROLL_CLAMP)
    /\ last.lm.palm_y = 900
    /\ ctrl.last_scroll_y = 900
    /\ ctrl.total_scrolls = 2
    /\ ctrl.gesture_text = "Scroll Down"

----------------------------------------------------------------------------
(* Claims checked under SpecConfirm.                                       *)

\* C6: a label different from the confirmed one that is given for fewer
\* than k consecutive frames is not the confirmed label, during the run and
\* after the different label that follows a run of exactly k-1; a label
\* given for k consecutive frames is confirmed on the k-th (k = FIST_CONFIRM
\* for 'fist', CONFIRM_FRAMES for the others).
C6_ConfirmFilter ==
    LET f == runs.fed
        k == IF f.label = "fist" THEN FIST_CONFIRM ELSE CONFIRM_FRAMES
        pk == IF f.plabel = "fist" THEN FIST_CONFIRM ELSE CONFIRM_FRAMES
    IN  last.op = "confirm" =>
          /\ (f.from # f.label /\ f.run < k =>
                 ctrl.current_confirmed_gesture # f.label /\ ~f.ok)
          /\ (f.run = 1 /\ f.prun = pk - 1 /\ f.pfrom # f.plabel =>
                 ctrl.current_confirmed_gesture # f.plabel)
          /\ (f.from # f.label /\ f.run = k =>
                 /\ ctrl.current_confirmed_gesture = f.label
                 /\ f.ok
                 /\ ctrl.gesture_frame_count = k)

\* C6 witness: 'fist' was given for two frames and not confirmed, one other
\* label followed, and 'fist' has now been given for three frames and is
\* confirmed.
C6_Witness ==
    /\ last.op = "confirm"
    /\ runs.fed.label = "fist" /\ runs.fed.run = FIST_CONFIRM
    /\ runs.fed.from # "fist"
    /\ Len(ctrl.gesture_history) = 2 * FIST_CONFIRM
    /\ ctrl.gesture_history[1] = "fist" /\ ctrl.gesture_history[2] = "fist"
    /\ ctrl.current_confirmed_gesture = "fist"

\* C12: the step into paused is the pause key's, which runs on_hand_lost()
\* (one button-up if a drag was active, nothing else) and leaves the
\* released state; every step taken while paused, other than the resume,
\* passes no frame to process(), emits no OS action and leaves the
\* controller as it is, in the released state; paused ends only by the
\* pause key.
C12_PauseSoftStop ==
    [][/\ (~ctrl.paused /\ ctrl'.paused =>
              /\ last'.op = "pause"
              /\ out' = IF ctrl.is_dragging THEN <<Act("mouseUp")>> ELSE <<>>
              /\ Released(ctrl'))
       /\ (ctrl.paused /\ ctrl'.paused =>
              /\ last'.op # "process"
              /\ out' = <<>>
              /\ ctrl' = ctrl
              /\ Released(ctrl'))
       /\ (ctrl.paused /\ ~ctrl'.paused =>
              /\ pc = "key" /\ last'.op = "resume"
              /\ out' = <<>>)]_vars

\* C12 witness: the session was paused while a pinch was closed, after two
\* or more frames had been processed, and a frame has since been read and
\* not interpreted.
C12_Witness ==
    /\ ctrl.paused /\ last.op = "skip"
    /\ ctrl.pinch_start_time > 0
    /\ ctrl.gesture_frame_count >= CONFIRM_FRAMES
    /\ Released(ctrl) /\ out = <<>>

\* C13: a no-hand frame adds one to the no-hand counter; while the counter
\* is below 3 the frame emits no OS action and leaves the controller (and
\* the button) as it is, and from 3 on it invokes on_hand_lost(); a frame
\* with a hand resets the counter to 0.
C13_TransientLoss ==
    [][/\ (pc = "read" /\ last'.op \in {"nohand", "lost"} =>
              /\ no_hand_frames' = no_hand_frames + 1
              /\ (last'.op = "lost" <=> no_hand_frames' >= 3)
              /\ (last'.op = "nohand" =>
                     /\ out' = <<>>
                     /\ ctrl' = ctrl
                     /\ buttonHeld' = buttonHeld))
       /\ (ProcStep => no_hand_frames' = 0)]_vars

\* C13 witness: the second consecutive no-hand frame has passed while a
\* pinch is closed and 'point' is confirmed; both are retained.
C13_Witness ==
    /\ last.op = "nohand" /\ no_hand_frames = 2
    /\ ctrl.is_pinching /\ last.pre.is_pinching
    /\ ctrl.current_confirmed_gesture = "point"
    /\ Len(ctrl.gesture_history) >= CONFIRM_FRAMES
    /\ out = <<>>

\* the most recent k entries of the history h all equal the label L
\* (k = 3 for 'fist', 2 otherwise)
RecentAll(h, L) ==
    LET k == IF L = "fist" THEN 3 ELSE 2
    IN  Len(h) >= k /\ \A i \in (Len(h) - k + 1)..Len(h) : h[i] = L

\* C18 as stated: every step that changes current_confirmed_gesture to a
\* new label L leaves the most recent k entries of the history equal to L.
C18_LabelChange ==
    [][ctrl'.current_confirmed_gesture # ctrl.current_confirmed_gesture =>
        RecentAll(ctrl'.gesture_history, ctrl'.current_confirmed_gesture)]_vars

\* C18 amended: every step of process() that changes the label does so;
\* any other step that changes the label is a call of on_hand_lost(),
\* which sets it to 'idle' and empties the history.
C18_LabelChangeInProcess ==
    [][ctrl'.current_confirmed_gesture # ctrl.current_confirmed_gesture =>
        IF ProcStep
        THEN RecentAll(ctrl'.gesture_history, ctrl'.current_confirmed_gesture)
        ELSE /\ LostStep
             /\ ctrl'.current_confirmed_gesture = "idle"
             /\ ctrl'.gesture_history = <<>>]_vars

\* C18 witness: 'point' has just been confirmed on its second frame, in a
\* history that on_hand_lost() had emptied after earlier frames.
C18_Witness ==
    /\ last.op = "process"
    /\ ctrl.current_confirmed_gesture = "point"
    /\ ctrl.gesture_frame_count = CONFIRM_FRAMES
    /\ ctrl.gesture_history = <<"point", "point">>
    /\ now >= T0 + 7 * FrameInterval

----------------------------------------------------------------------------
(* Claims checked under SpecHands.                                         *)

\* C16: for the digits of every processed frame, all_curled and open_palm
\* are not both true, and when all five digits are curled all_curled is
\* true and open_palm is false.
C16_PredicateExclusivity ==
    last.op = "process" =>
        LET f == last.lm.fingers
        IN  /\ ~(AllCurled(f) /\ OpenPalm(f))
            /\ (~f.thumb /\ ~f.index /\ ~f.middle /\ ~f.ring /\ ~f.pinky =>
                   AllCurled(f) /\ ~OpenPalm(f))

\* C16 witness: a frame with all five digits curled has been processed (it
\* was given to the confirmation filter as 'fist') after an open-palm frame
\* (given as 'scroll').
C16_Witness ==
    /\ last.op = "process"
    /\ last.lm.fingers = FIST
    /\ last.pre.is_scrolling
    /\ \E i \in 1..Len(ctrl.gesture_history) : ctrl.gesture_history[i] = "fist"
    /\ ctrl.gesture_history[1] = "scroll"

----------------------------------------------------------------------------
(* Claims checked under SpecCursor and SpecKeys.                           *)

\* C17: when the call of _smooth_move before this one was suppressed by the
\* dead zone (it left smooth_x and smooth_y as they were), no sensitivity
\* key was pressed in between and the raw target is the same again, this
\* call hands the same position to moveTo and leaves smooth_x and smooth_y
\* unchanged.
C17_DeadZoneIdempotent ==
    [][(/\ ProcStep /\ last.op = "process"
        /\ ctrl.smooth_x = last.pre.smooth_x
        /\ ctrl.smooth_y = last.pre.smooth_y
        /\ _map_to_screen(last'.lm.tip[1], last'.lm.tip[2])
              = <<ctrl.prev_target_x, ctrl.prev_target_y>>)
       => /\ ctrl'.smooth_x = ctrl.smooth_x
          /\ ctrl'.smooth_y = ctrl.smooth_y
          /\ out'[1] = out[1]]_vars

\* C19: SMOOTH_FAST, the blend factor used above VELOCITY_THRESHOLD, is
\* larger than SMOOTH_BASE, the one used otherwise, in every reachable
\* state.
C19_FastAboveBase == SMOOTH_FAST > SMOOTH_BASE

\* C20: SMOOTH_BASE stays within [0.10, 0.60]; '+' adds 0.05 up to 0.60,
\* '-' subtracts 0.05 down to 0.10, and no other step changes it.
C20_SensitivityClamped ==
    /\ SMOOTH_BASE >= 10 /\ SMOOTH_BASE <= 60
    /\ (last.op = "plus" =>
           SMOOTH_BASE = IF last.pre.base + 5 > 60 THEN 60 ELSE last.pre.base + 5)
    /\ (last.op = "minus" =>
           SMOOTH_BASE = IF last.pre.base - 5 < 10 THEN 10 ELSE last.pre.base - 5)
    /\ (last.op \notin {"plus", "minus"} => SMOOTH_BASE = last.pre.base)

\* C20 witness: '+' has been pressed with SMOOTH_BASE already at 0.60, and
\* SMOOTH_BASE is still 0.60.
C20_Witness ==
    /\ last.op = "plus"
    /\ last.pre.base = 60
    /\ SMOOTH_BASE = 60

----------------------------------------------------------------------------
(* Claims checked under SpecScreen.                                        *)

\* C23: the smoothed position and every position given to moveTo lie on
\* the screen: 0 <= x <= SCREEN_W - 1 and 0 <= y <= SCREEN_H - 1.
C23_CursorOnScreen ==
    /\ ctrl.smooth_x >= 0 /\ ctrl.smooth_x <= (SCREEN_W - 1) * PX
    /\ ctrl.smooth_y >= 0 /\ ctrl.smooth_y <= (SCREEN_H - 1) * PX
    /\ \A i \in 1..Len(out) :
          out[i].op = "moveTo" =>
              /\ out[i].x >= 0 /\ out[i].x <= SCREEN_W - 1
              /\ out[i].y >= 0 /\ out[i].y <= SCREEN_H - 1

\* C23 witness: with the sensitivity changed, a fingertip outside the image
\* has drawn the cursor most of the way to the top right corner, the
\* target being held on the screen's last column and first row.
C23_Witness ==
    /\ last.op = "process"
    /\ last.lm.tip = <<-200, -200>>
    /\ SMOOTH_BASE # SMOOTH_BASE_INIT
    /\ ctrl.prev_target_x = (SCREEN_W - 1) * PX /\ ctrl.prev_target_y = 0
    /\ ctrl.smooth_x > 1600 * PX /\ ctrl.smooth_y < 200 * PX
    /\ out[1] = ActMove(TruncDiv(ctrl.smooth_x, PX), TruncDiv(ctrl.smooth_y, PX))

----------------------------------------------------------------------------
(* Claims checked under SpecLive.                                          *)

\* C11: whenever the frame loop has ended (quit key or failed read), the
\* session reaches its terminal state through on_hand_lost(): there the
\* controller is in the released state, is_dragging is false and no button
\* is held.
C11_CleanTermination ==
    (pc = "exit") ~>
        (/\ pc = "done" /\ last.op = "shutdown"
         /\ Released(ctrl) /\ ~ctrl.is_dragging /\ ~buttonHeld)

\* C11 witness: the session has terminated after the loop ended while a
\* pinch was closed and a gesture other than 'idle' was confirmed.
C11_Witness ==
    /\ pc = "done" /\ last.op = "shutdown"
    /\ last.pre.is_pinching
    /\ ctrl.gesture_frame_count >= CONFIRM_FRAMES
    /\ Released(ctrl) /\ ~buttonHeld

====
